---- MODULE Spec2Model ----
\* VGA text-mode Writer of popcorn-reader (src/low_level/vga_buffer.rs) and
\* the lock-and-interrupt gateway in front of it.
EXTENDS Integers, Sequences, FiniteSets, TLC

\* ---------------------------------------------------------------------
\* Program constants
\* ---------------------------------------------------------------------
BUFFER_HEIGHT == 25
BUFFER_WIDTH == 80
ACTUAL_BUFFER_WIDTH == 50

\* enum Color discriminants used by the inputs below
Black == 0
Blue == 1
LightBlue == 9
Yellow == 14
White == 15

NEWLINE == 10
SPACE == 32

\* ---------------------------------------------------------------------
\* Bounds of the exploration
\* ---------------------------------------------------------------------
MaxOps == 3
MaxCalls == 2

\* ---------------------------------------------------------------------
\* ColorCode (u8 arithmetic)
\* ---------------------------------------------------------------------
RECURSIVE BitOr(_, _, _)
BitOr(a, b, n) ==
    IF n = 0 THEN 0
    ELSE (IF a % 2 = 1 \/ b % 2 = 1 THEN 1 ELSE 0)
         + 2 * BitOr(a \div 2, b \div 2, n - 1)

generate(foreground, background) ==
    BitOr((background * 16) % 256, foreground, 8)

ColorCode_new(foreground, background) == generate(foreground, background)

\* get_colors returning (background, foreground)
get_colors_swapped(cc) == <<cc \div 16, cc % 16>>

get_colors(cc) == <<cc % 16, cc \div 16>>

\* invert rebuilding the code from the halves in their old places
invert_keep(cc) ==
    LET colors == get_colors(cc) IN generate(colors[1], colors[2])

invert(cc) ==
    LET colors == get_colors(cc) IN generate(colors[2], colors[1])

\* ---------------------------------------------------------------------
\* Char
\* ---------------------------------------------------------------------
Char(byte, cc) == [ascii_character |-> byte, color_code |-> cc]

invert_colors(ch) == [ch EXCEPT !.color_code = invert(@)]

\* ---------------------------------------------------------------------
\* Inputs
\* ---------------------------------------------------------------------
Rows == 0 .. (BUFFER_HEIGHT - 1)
Cols == 0 .. (BUFFER_WIDTH - 1)

Rep(byte, n) == [i \in 1 .. n |-> byte]

\* "POPCORN!"
POPCORN == <<80, 79, 80, 67, 79, 82, 78, 33>>

Bytes == {66, NEWLINE}

Strings ==
    { POPCORN,
      <<65, NEWLINE, 67>>,
      Rep(65, ACTUAL_BUFFER_WIDTH),
      Rep(65, ACTUAL_BUFFER_WIDTH + 1) }

ClearColors == {Black, Blue}

ColorPairs == { <<LightBlue, Black>>, <<White, Blue>> }

\* What the memory at 0xb8000 may hold before the Writer first touches it.
Fill(ch) == [r \in Rows |-> [c \in Cols |-> ch]]

InitialBuffers == { Fill(Char(SPACE, 7)), Fill(Char(88, 31)) }

\* Execution contexts that can call the gateway
CPUS == {"cpu0", "cpu1"}

\* Arguments of print: the write_str pieces write_fmt produces, in order
PrintArgs == { << <<79>>, <<75>> >> }

\* toggled: the cells whose color code invert_colors has swapped an odd
\* number of times since they were last written or cleared.
VARIABLES column_position, color_code, buffer, panicked, scrolls, prev, op, nops,
          lock, interrupts_enabled, stack, ncalls, acquired, mutators, toggled

writer_vars ==
    <<column_position, color_code, buffer, panicked, scrolls, prev, op, toggled>>

gateway_vars == <<lock, interrupts_enabled, stack, ncalls, acquired, mutators>>

vars == <<writer_vars, nops, gateway_vars>>

\* ---------------------------------------------------------------------
\* Writer, as a value: the three fields of struct Writer, plus whether a
\* bounds or overflow check has failed and how often next_line ran.
\* ---------------------------------------------------------------------
Self ==
    [column_position |-> column_position, color_code |-> color_code,
     buffer |-> buffer, panicked |-> panicked, scrolls |-> 0,
     toggled |-> toggled]

Panic(w) == [w EXCEPT !.panicked = TRUE]

Flip(cells, cell) ==
    IF cell \in cells THEN cells \ {cell} ELSE cells \cup {cell}

\* The swapped cells after every row has moved up by one.
ShiftToggled(cells) == {<<cell[1] - 1, cell[2]>> : cell \in {x \in cells : x[1] >= 1}}

\* self.buffer.chars[BUFFER_HEIGHT - 1][col].invert_colors(), bounds-checked
InvertAt(w, col) ==
    IF w.panicked THEN w
    ELSE IF col < 0 \/ col >= BUFFER_WIDTH THEN Panic(w)
    ELSE [w EXCEPT !.buffer[BUFFER_HEIGHT - 1][col] = invert_colors(@),
                   !.toggled = Flip(@, <<BUFFER_HEIGHT - 1, col>>)]

clear_row(w, row) ==
    LET blank == Char(SPACE, w.color_code)
    IN [w EXCEPT !.buffer[row] = [col \in Cols |-> blank],
                 !.toggled = {cell \in @ : cell[1] # row}]

RECURSIVE ShiftRows(_, _)
ShiftRows(chars, row) ==
    IF row >= BUFFER_HEIGHT THEN chars
    ELSE ShiftRows([chars EXCEPT ![row - 1] = chars[row]], row + 1)

\* next_line without the clear_row call
next_line_noclear(w) ==
    [w EXCEPT !.buffer = ShiftRows(w.buffer, 1), !.column_position = 0,
              !.scrolls = @ + 1, !.toggled = ShiftToggled(@)]

next_line(w) ==
    LET shifted == [w EXCEPT !.buffer = ShiftRows(w.buffer, 1),
                             !.toggled = ShiftToggled(@)]
        cleared == clear_row(shifted, BUFFER_HEIGHT - 1)
    IN [cleared EXCEPT !.column_position = 0, !.scrolls = @ + 1]

\* A negative target stands for a usize subtraction that underflowed in
\* the caller.
move_cursor(w, target) ==
    IF w.panicked THEN w
    ELSE IF target < 0 THEN Panic(w)
    ELSE LET w1 == InvertAt(w, w.column_position + 1)
             w2 == IF w1.panicked THEN w1
                   ELSE IF target = 0 THEN next_line(w1)
                   ELSE [w1 EXCEPT !.column_position = target]
         IN InvertAt(w2, w2.column_position + 1)

set_char(w, byte) ==
    IF w.panicked THEN w
    ELSE IF w.column_position < 0 \/ w.column_position >= BUFFER_WIDTH THEN Panic(w)
    ELSE [w EXCEPT !.buffer[BUFFER_HEIGHT - 1][w.column_position] =
                        Char(byte, w.color_code),
                   !.toggled = @ \ {<<BUFFER_HEIGHT - 1, w.column_position>>}]

WrapNeeded(w, byte) ==
    byte = NEWLINE \/ w.column_position >= ACTUAL_BUFFER_WIDTH

\* write_byte storing the byte before it moves the cursor
write_byte_write_first(w, byte) ==
    IF w.panicked THEN w
    ELSE IF WrapNeeded(w, byte) THEN move_cursor(w, 0)
    ELSE move_cursor(set_char(w, byte), w.column_position + 1)

write_byte(w, byte) ==
    IF w.panicked THEN w
    ELSE IF WrapNeeded(w, byte) THEN move_cursor(w, 0)
    ELSE set_char(move_cursor(w, w.column_position + 1), byte)

\* for byte in s.bytes() { self.write_byte(byte) }, from the i-th byte on;
\* a failed check unwinds out of the loop.
RECURSIVE WriteFrom(_, _, _)
WriteFrom(w, s, i) ==
    IF w.panicked \/ i > Len(s) THEN w
    ELSE WriteFrom(write_byte(w, s[i]), s, i + 1)

write_string(w, s) == WriteFrom(w, s, 1)

\* clear_screen blanking with the active color, as clear_row does
clear_screen_active(w, color) ==
    LET blank == Char(SPACE, w.color_code)
    IN [w EXCEPT !.buffer = [row \in Rows |-> [col \in Cols |-> blank]],
                 !.toggled = {}]

clear_screen(w, color) ==
    LET blank == Char(SPACE, ColorCode_new(color, color))
    IN [w EXCEPT !.buffer = [row \in Rows |-> [col \in Cols |-> blank]],
                 !.toggled = {}]

\* set_color repainting the current line in the new color
set_color_repaint(w, foreground, background) ==
    clear_row([w EXCEPT !.color_code = ColorCode_new(foreground, background)],
              BUFFER_HEIGHT - 1)

set_color(w, foreground, background) ==
    [w EXCEPT !.color_code = ColorCode_new(foreground, background)]

BackspaceNoop(w) == w.column_position = 0

\* backspace moving the cursor before it blanks
backspace_after_move(w) ==
    IF w.panicked \/ BackspaceNoop(w) THEN w
    ELSE set_char(move_cursor(w, w.column_position - 1), SPACE)

backspace(w) ==
    IF w.panicked \/ BackspaceNoop(w) THEN w
    ELSE move_cursor(set_char(w, SPACE), w.column_position - 1)

\* cursor_back without its early return
CursorBackNoop_never(w) == FALSE

CursorBackNoop(w) == w.column_position = 0

cursor_back(w) ==
    IF w.panicked \/ CursorBackNoop(w) THEN w
    ELSE move_cursor(w, w.column_position - 1)

\* cursor_front clamped at the hardware width
CursorFrontNoop_wide(w) == w.column_position = BUFFER_WIDTH

CursorFrontNoop(w) == w.column_position = ACTUAL_BUFFER_WIDTH

cursor_front(w) ==
    IF w.panicked \/ CursorFrontNoop(w) THEN w
    ELSE move_cursor(w, w.column_position + 1)

\* ---------------------------------------------------------------------
\* The Writer used directly: one action per public operation
\* ---------------------------------------------------------------------
NoCall ==
    [kind |-> "main", pc |-> "idle", id |-> 0, name |-> "none",
     arg |-> <<>>, pieces |-> <<>>, saved |-> FALSE]

WriterInit ==
    /\ column_position = 0
    /\ color_code = ColorCode_new(Yellow, Black)
    /\ buffer \in InitialBuffers
    /\ panicked = FALSE
    /\ scrolls = 0
    /\ toggled = {}
    /\ prev = Self
    /\ op = [name |-> "init", arg |-> <<>>]
    /\ nops = 0

Init ==
    /\ WriterInit
    /\ lock = 0
    /\ interrupts_enabled = [c \in CPUS |-> TRUE]
    /\ stack = [c \in CPUS |-> <<NoCall>>]
    /\ ncalls = 0
    /\ acquired = <<>>
    /\ mutators = <<>>

\* Store the Writer w as the new state, remembering the state before the
\* operation and which operation it was.
Store(w, name, arg) ==
    /\ column_position' = w.column_position
    /\ color_code' = w.color_code
    /\ buffer' = w.buffer
    /\ panicked' = w.panicked
    /\ scrolls' = w.scrolls
    /\ toggled' = w.toggled
    /\ prev' = Self
    /\ op' = [name |-> name, arg |-> arg]

Apply(w, name, arg) ==
    /\ ~panicked
    /\ nops < MaxOps
    /\ Store(w, name, arg)
    /\ nops' = nops + 1
    /\ UNCHANGED gateway_vars

WriteByte == \E byte \in Bytes : Apply(write_byte(Self, byte), "write_byte", <<byte>>)

WriteString == \E s \in Strings : Apply(write_string(Self, s), "write_string", s)

Backspace == Apply(backspace(Self), "backspace", <<>>)

CursorBack == Apply(cursor_back(Self), "cursor_back", <<>>)

CursorFront == Apply(cursor_front(Self), "cursor_front", <<>>)

ClearScreen == \E color \in ClearColors : Apply(clear_screen(Self, color), "clear_screen", <<color>>)

SetColor ==
    \E p \in ColorPairs : Apply(set_color(Self, p[1], p[2]), "set_color", p)

Next ==
    \/ WriteByte
    \/ WriteString
    \/ Backspace
    \/ CursorBack
    \/ CursorFront
    \/ ClearScreen
    \/ SetColor

Spec == Init /\ [][Next]_vars

\* ---------------------------------------------------------------------
\* The gateway: WRITER behind a spin lock, every entry point wrapped in
\* interrupts::without_interrupts. Each CPU runs a stack of contexts, the
\* interrupted ones below the running one.
\* ---------------------------------------------------------------------
Requests ==
    { [name |-> "print", arg |-> <<>>, pieces |-> ps] : ps \in PrintArgs }
    \cup { [name |-> "set_color", arg |-> p, pieces |-> <<>>] : p \in {<<LightBlue, Black>>} }
    \cup { [name |-> "clear_screen", arg |-> <<color>>, pieces |-> <<>>] : color \in {Blue} }
    \cup { [name |-> n, arg |-> <<>>, pieces |-> <<>>] :
             n \in {"backspace", "cursor_back", "cursor_front"} }

Top(c) == stack[c][Len(stack[c])]

SetTop(c, ctx) == [stack EXCEPT ![c][Len(stack[c])] = ctx]

\* an entry point that takes the lock without masking interrupts
without_interrupts_enter_unmasked(enabled) == enabled

\* IF of the calling CPU inside without_interrupts(..)
without_interrupts_enter(enabled) == FALSE

\* IF of the calling CPU after without_interrupts(..): re-enabled only if
\* it was enabled on entry
without_interrupts_exit(saved, enabled) == IF saved THEN TRUE ELSE enabled

\* a lock that never waits
TryLock_always(l) == TRUE

\* spin::Mutex::lock leaves its loop only when the lock is free
TryLock(l) == l = 0

\* cpu0 runs with interrupts enabled, cpu1 with interrupts masked (as the
\* boot CPU is until init enables them).
GatewayInit ==
    /\ WriterInit
    /\ buffer = Fill(Char(SPACE, 7))
    /\ lock = 0
    /\ interrupts_enabled = [c \in CPUS |-> c = "cpu0"]
    /\ stack = [c \in CPUS |-> <<NoCall>>]
    /\ ncalls = 0
    /\ acquired = <<>>
    /\ mutators = <<>>

\* A context enters one of the six entry points: without_interrupts notes
\* whether interrupts were enabled and masks them.
CallWith(c, r) ==
    /\ Top(c).pc = "idle"
    /\ Top(c).kind # "panic"
    /\ ncalls < MaxCalls
    /\ ncalls' = ncalls + 1
    /\ interrupts_enabled' =
           [interrupts_enabled EXCEPT ![c] = without_interrupts_enter(@)]
    /\ stack' = SetTop(c, [Top(c) EXCEPT !.pc = "lock", !.id = ncalls + 1,
                                         !.name = r.name, !.arg = r.arg,
                                         !.pieces = r.pieces,
                                         !.saved = interrupts_enabled[c]])
    /\ UNCHANGED <<writer_vars, nops, lock, acquired, mutators>>

Call == \E c \in CPUS, r \in Requests : CallWith(c, r)

\* The running context of CPU c can take its next step by itself.
CanAdvance(c) ==
    \/ Top(c).pc \in {"body", "unlock", "sti"}
    \/ Top(c).pc = "lock" /\ TryLock(lock)
    \/ Top(c).kind = "handler" /\ Top(c).pc = "idle"

\* Where that step leaves the contexts: lock taken, one piece (or the one
\* Writer call) done, guard dropped, call returned, handler returned.
AdvanceStack(c) ==
    LET t == Top(c) IN
    CASE t.pc = "lock" -> SetTop(c, [t EXCEPT !.pc = "body"])
      [] t.pc = "body" /\ t.pieces # <<>> ->
             SetTop(c, [t EXCEPT !.pieces = Tail(@),
                        !.pc = IF Tail(t.pieces) = <<>> THEN "unlock" ELSE "body"])
      [] t.pc = "body" /\ t.pieces = <<>> -> SetTop(c, [t EXCEPT !.pc = "unlock"])
      [] t.pc = "unlock" -> SetTop(c, [t EXCEPT !.pc = "sti"])
      [] t.pc = "sti" -> SetTop(c, [NoCall EXCEPT !.kind = t.kind])
      [] t.pc = "idle" -> [stack EXCEPT ![c] = SubSeq(@, 1, Len(@) - 1)]

Lock ==
    \E c \in CPUS :
        /\ Top(c).pc = "lock"
        /\ TryLock(lock)
        /\ lock' = Top(c).id
        /\ acquired' = Append(acquired, Top(c).id)
        /\ stack' = AdvanceStack(c)
        /\ UNCHANGED <<writer_vars, nops, interrupts_enabled, ncalls, mutators>>

\* The ids of the calls in the order they touched the Writer, a run of
\* steps of one call counted once.
Touched(id) ==
    IF mutators # <<>> /\ mutators[Len(mutators)] = id THEN mutators
    ELSE Append(mutators, id)

\* write_fmt hands the pieces to write_str one after the other.
PrintPiece ==
    \E c \in CPUS :
        /\ Top(c).pc = "body"
        /\ Top(c).name = "print"
        /\ Top(c).pieces # <<>>
        /\ Store(write_string(Self, Head(Top(c).pieces)), "write_string",
                 Head(Top(c).pieces))
        /\ mutators' = Touched(Top(c).id)
        /\ stack' = AdvanceStack(c)
        /\ UNCHANGED <<nops, lock, interrupts_enabled, ncalls, acquired>>

WriterCall(w, name, arg) ==
    CASE name = "set_color" -> set_color(w, arg[1], arg[2])
      [] name = "clear_screen" -> clear_screen(w, arg[1])
      [] name = "backspace" -> backspace(w)
      [] name = "cursor_back" -> cursor_back(w)
      [] name = "cursor_front" -> cursor_front(w)

Body ==
    \E c \in CPUS :
        /\ Top(c).pc = "body"
        /\ Top(c).name # "print"
        /\ Store(WriterCall(Self, Top(c).name, Top(c).arg), Top(c).name, Top(c).arg)
        /\ mutators' = Touched(Top(c).id)
        /\ stack' = AdvanceStack(c)
        /\ UNCHANGED <<nops, lock, interrupts_enabled, ncalls, acquired>>

\* The MutexGuard is dropped at the end of the statement.
Unlock ==
    \E c \in CPUS :
        /\ Top(c).pc = "unlock"
        /\ lock' = 0
        /\ stack' = AdvanceStack(c)
        /\ UNCHANGED <<writer_vars, nops, interrupts_enabled, ncalls, acquired, mutators>>

RestoreInterrupts ==
    \E c \in CPUS :
        /\ Top(c).pc = "sti"
        /\ interrupts_enabled' =
               [interrupts_enabled EXCEPT
                   ![c] = without_interrupts_exit(Top(c).saved, @)]
        /\ stack' = AdvanceStack(c)
        /\ UNCHANGED <<writer_vars, nops, lock, ncalls, acquired, mutators>>

\* A maskable interrupt is delivered to a CPU whose IF is set; the handler
\* starts with IF clear (interrupt gate).
Interrupt ==
    \E c \in CPUS :
        /\ interrupts_enabled[c]
        /\ stack' = [stack EXCEPT ![c] = Append(@, [NoCall EXCEPT !.kind = "handler"])]
        /\ interrupts_enabled' = [interrupts_enabled EXCEPT ![c] = FALSE]
        /\ UNCHANGED <<writer_vars, nops, lock, ncalls, acquired, mutators>>

\* iret: back to the interrupted context, whose IF was set.
Return ==
    \E c \in CPUS :
        /\ Top(c).kind = "handler"
        /\ Top(c).pc = "idle"
        /\ stack' = AdvanceStack(c)
        /\ interrupts_enabled' = [interrupts_enabled EXCEPT ![c] = TRUE]
        /\ UNCHANGED <<writer_vars, nops, lock, ncalls, acquired, mutators>>

GatewayNext ==
    \/ Call
    \/ Lock
    \/ PrintPiece
    \/ Body
    \/ Unlock
    \/ RestoreInterrupts
    \/ Interrupt
    \/ Return

SpecGateway == GatewayInit /\ [][GatewayNext]_vars

\* Position i of CPU c's stack holds the lock.
Holds(c, i) == stack[c][i].pc # "idle" /\ lock # 0 /\ lock = stack[c][i].id

\* ---------------------------------------------------------------------
\* Fatal faults: the panic handler of main.rs prints the panic message
\* through the same gateway and then halts for good.
\* ---------------------------------------------------------------------
\* println!("{}", info): the message and the newline
PanicPieces == << <<33>>, <<NEWLINE>> >>

Panicked(c) == \E i \in 1 .. Len(stack[c]) : stack[c][i].kind = "panic"

\* A panic is raised in the running context of a CPU, wherever it is, and
\* its handler enters print.
Fault ==
    \E c \in CPUS :
        /\ \A d \in CPUS : ~Panicked(d)
        /\ ncalls' = ncalls + 1
        /\ interrupts_enabled' =
               [interrupts_enabled EXCEPT ![c] = without_interrupts_enter(@)]
        /\ stack' = [stack EXCEPT ![c] =
               Append(@, [kind |-> "panic", pc |-> "lock", id |-> ncalls + 1,
                          name |-> "print", arg |-> <<>>, pieces |-> PanicPieces,
                          saved |-> interrupts_enabled[c]])]
        /\ UNCHANGED <<writer_vars, nops, lock, acquired, mutators>>

FaultNext ==
    \/ GatewayNext
    \/ Fault

\* Every CPU keeps executing its running context, and a CPU spinning on
\* the lock gets it if it is free again and again.
Fairness == \A c \in CPUS : SF_stack(CanAdvance(c) /\ stack' = AdvanceStack(c))

\* println!() of kernel_main: the newline alone, which scrolls.
PrintlnCall ==
    \E c \in CPUS :
        CallWith(c, [name |-> "print", arg |-> <<>>, pieces |-> << <<NEWLINE>> >>])

GatewayFairNext == \/ GatewayNext \/ PrintlnCall

\* The gateway without faults, under the same scheduling.
SpecGatewayFair == GatewayInit /\ [][GatewayFairNext]_vars /\ Fairness

SpecFault == GatewayInit /\ [][FaultNext]_vars /\ Fairness

\* ---------------------------------------------------------------------
\* The colored-message composer (print_with_colors! over MessageToVga),
\* as kernel_main uses it: one gateway entry for the whole sequence of
\* (foreground, background, text) triples.
\* ---------------------------------------------------------------------
\* "Welcome to the "
WELCOME == <<87, 101, 108, 99, 111, 109, 101, 32, 116, 111, 32, 116, 104, 101, 32>>

\* "Popcorn Kernel!"
KERNEL == <<80, 111, 112, 99, 111, 114, 110, 32, 75, 101, 114, 110, 101, 108, 33>>

\* The triples of kernel_main: arg holds the color pairs in order, pieces
\* the texts.
ComposerRequest ==
    [name |-> "print_with_colors", arg |-> <<Yellow, Black, LightBlue, Black>>,
     pieces |-> <<WELCOME, KERNEL>>]

ComposerCall == \E c \in CPUS : CallWith(c, ComposerRequest)

\* Another context prints through the gateway meanwhile.
PrintCall ==
    \E c \in CPUS, ps \in PrintArgs :
        CallWith(c, [name |-> "print", arg |-> <<>>, pieces |-> ps])

\* The colors of the first triple still to be written by context t.
SegmentColors(t) ==
    LET k == Len(t.arg) - 2 * Len(t.pieces) + 1 IN <<t.arg[k], t.arg[k + 1]>>

\* One triple, under the lock taken at entry: set_color, then write_string.
ComposerSegment ==
    \E c \in CPUS :
        /\ Top(c).pc = "body"
        /\ Top(c).name = "print_with_colors"
        /\ Top(c).pieces # <<>>
        /\ Store(write_string(set_color(Self, SegmentColors(Top(c))[1],
                                        SegmentColors(Top(c))[2]),
                              Head(Top(c).pieces)),
                 "write_string", Head(Top(c).pieces))
        /\ mutators' = Touched(Top(c).id)
        /\ stack' = AdvanceStack(c)
        /\ UNCHANGED <<nops, lock, interrupts_enabled, ncalls, acquired>>

ComposerNext ==
    \/ ComposerCall
    \/ PrintCall
    \/ Lock
    \/ ComposerSegment
    \/ PrintPiece
    \/ Unlock
    \/ RestoreInterrupts
    \/ Interrupt
    \/ Return

SpecComposer == GatewayInit /\ [][ComposerNext]_vars

\* ---------------------------------------------------------------------
\* ColorCode and Char on their own: one palette pair is packed, then
\* unpacked, or inverted once and twice, alone or inside a cell.
\* ---------------------------------------------------------------------
Color == 0 .. 15

ColorInit ==
    /\ Init
    /\ buffer = Fill(Char(SPACE, 7))

Stage(name) == [op EXCEPT !.name = name]

ColorNew ==
    \E foreground \in Color, background \in Color :
        /\ op.name = "init"
        /\ color_code' = ColorCode_new(foreground, background)
        /\ op' = [name |-> "new", arg |-> <<foreground, background>>]
        /\ UNCHANGED <<column_position, buffer, panicked, scrolls, prev, toggled,
                       nops, gateway_vars>>

ColorGetColors ==
    /\ op.name = "new"
    /\ op' = [name |-> "get_colors", arg |-> op.arg \o get_colors(color_code)]
    /\ UNCHANGED <<column_position, color_code, buffer, panicked, scrolls, prev,
                   toggled, nops, gateway_vars>>

ColorInvert ==
    /\ op.name \in {"new", "invert"}
    /\ color_code' = invert(color_code)
    /\ op' = Stage(IF op.name = "new" THEN "invert" ELSE "invert_twice")
    /\ UNCHANGED <<column_position, buffer, panicked, scrolls, prev, toggled,
                   nops, gateway_vars>>

CellNew ==
    /\ op.name = "new"
    /\ buffer' = [buffer EXCEPT ![BUFFER_HEIGHT - 1][0] = Char(88, color_code)]
    /\ op' = Stage("cell")
    /\ UNCHANGED <<column_position, color_code, panicked, scrolls, prev, toggled,
                   nops, gateway_vars>>

CellInvertColors ==
    /\ op.name \in {"cell", "invert_colors"}
    /\ buffer' = [buffer EXCEPT ![BUFFER_HEIGHT - 1][0] = invert_colors(@)]
    /\ op' = Stage(IF op.name = "cell" THEN "invert_colors" ELSE "invert_colors_twice")
    /\ UNCHANGED <<column_position, color_code, panicked, scrolls, prev, toggled,
                   nops, gateway_vars>>

ColorNext ==
    \/ ColorNew
    \/ ColorGetColors
    \/ ColorInvert
    \/ CellNew
    \/ CellInvertColors

SpecColor == ColorInit /\ [][ColorNext]_vars

\* ---------------------------------------------------------------------
\* Properties
\* ---------------------------------------------------------------------
Bottom == BUFFER_HEIGHT - 1

\* C1: after any sequence of Writer operations from column_position = 0,
\* 0 <= column_position <= ACTUAL_BUFFER_WIDTH.
ColumnInRange == 0 <= column_position /\ column_position <= ACTUAL_BUFFER_WIDTH

\* cursor_front was called at the right limit and stayed there.
CursorFrontAtLimit ==
    /\ op.name = "cursor_front"
    /\ prev.column_position = ACTUAL_BUFFER_WIDTH
    /\ column_position = ACTUAL_BUFFER_WIDTH

\* C2: no operation fails a bounds check or underflows column_position - 1,
\* and the marker index column_position + 1 stays below BUFFER_WIDTH.
NoFault == ~panicked /\ column_position + 1 < BUFFER_WIDTH

\* backspace or cursor_back ran with the marker at its rightmost index.
MarkerAtLimit ==
    /\ op.name \in {"backspace", "cursor_back"}
    /\ prev.column_position = ACTUAL_BUFFER_WIDTH
    /\ column_position = ACTUAL_BUFFER_WIDTH - 1
    /\ ~panicked

\* C3: whichever context holds the Writer lock runs with interrupts masked
\* and is the running context of its CPU, so no handler ever waits for a
\* lock held by the context it interrupted.
LockHeldOnlyMasked ==
    \A c \in CPUS : \A i \in 1 .. Len(stack[c]) :
        Holds(c, i) => (~interrupts_enabled[c] /\ i = Len(stack[c]))

\* An interrupt handler is inside a gateway call, holding the lock, above
\* a main context that used the gateway before.
HandlerHoldsLock ==
    \E c \in CPUS :
        /\ Len(stack[c]) = 2
        /\ Holds(c, 2)
        /\ Top(c).pc = "unlock"
        /\ \E k \in 1 .. Len(acquired) : acquired[k] # Top(c).id

\* C4: the calls touch the Writer in the order they acquired the lock, and
\* once another call has touched it a call never touches it again.
Serialized ==
    /\ Len(mutators) <= Len(acquired)
    /\ Len(acquired) - Len(mutators) <= 1
    /\ mutators = SubSeq(acquired, 1, Len(mutators))

\* A print has written its first piece and not yet its second while
\* another context waits for the lock.
PrintMidwayOtherWaits ==
    \E c \in CPUS, d \in CPUS :
        /\ c # d
        /\ Top(c).name = "print" /\ Top(c).pc = "body" /\ Len(Top(c).pieces) = 1
        /\ Top(d).pc = "lock"

NoNewline(s) == \A i \in 1 .. Len(s) : s[i] # NEWLINE

BlankRow(row) == \A col \in Cols : row[col].ascii_character = SPACE

\* C5: n <= ACTUAL_BUFFER_WIDTH non-newline bytes written from column 0 of
\* a blank bottom row end up in columns 0..n-1 with the active color, and
\* column_position = n.
WriteFillsFromColumnZero ==
    ( /\ op.name = "write_string"
      /\ prev.column_position = 0
      /\ BlankRow(prev.buffer[Bottom])
      /\ NoNewline(op.arg)
      /\ Len(op.arg) \in 1 .. ACTUAL_BUFFER_WIDTH )
    => /\ column_position = Len(op.arg)
       /\ \A i \in 1 .. Len(op.arg) :
              buffer[Bottom][i - 1] = Char(op.arg[i], prev.color_code)

Wrapped == op.name = "write_byte" /\ WrapNeeded(prev, op.arg[1])

\* C6 as claimed: a wrapping write_byte scrolls once, row r-1 becomes the
\* old row r, the whole new bottom row is blank in the active color and
\* column_position = 0.
ScrollExact ==
    Wrapped
    => /\ scrolls = 1
       /\ \A r \in 1 .. Bottom : buffer[r - 1] = prev.buffer[r]
       /\ \A col \in Cols : buffer[Bottom][col] = Char(SPACE, color_code)
       /\ column_position = 0

\* C6: a wrapping write_byte scrolls once; row r-1 becomes the old row r,
\* the old bottom row with its marker cell (column_position + 1) inverted
\* back; the new bottom row is blank in the active color except column 1,
\* which is blank in the inverted active color; column_position = 0.
ScrollUpToMarker ==
    Wrapped
    => /\ scrolls = 1
       /\ \A r \in 1 .. (Bottom - 1) : buffer[r - 1] = prev.buffer[r]
       /\ buffer[Bottom - 1] =
              [prev.buffer[Bottom] EXCEPT ![prev.column_position + 1] =
                   [ascii_character |-> @.ascii_character,
                    color_code |-> 16 * (@.color_code % 16) + (@.color_code \div 16)]]
       /\ \A col \in Cols :
              buffer[Bottom][col] =
                  IF col = 1
                  THEN Char(SPACE, 16 * (color_code % 16) + (color_code \div 16))
                  ELSE Char(SPACE, color_code)
       /\ column_position = 0

\* A byte other than newline arrived at the right limit and wrapped, with
\* text on the row that scrolled up.
WrappedAtLimit ==
    /\ Wrapped
    /\ op.arg[1] # NEWLINE
    /\ prev.column_position = ACTUAL_BUFFER_WIDTH
    /\ ~BlankRow(buffer[Bottom - 1])

Cleared(chars) == \A r \in Rows : BlankRow(chars[r])

\* C7: ACTUAL_BUFFER_WIDTH + 1 'A's written to a cleared screen from
\* column 0 scroll once and leave exactly one 'A' on the bottom row, at
\* column 0.
WrapKeepsByte ==
    ( /\ op.name = "write_string"
      /\ op.arg = Rep(65, ACTUAL_BUFFER_WIDTH + 1)
      /\ prev.column_position = 0
      /\ Cleared(prev.buffer) )
    => /\ scrolls = 1
       /\ {col \in Cols : buffer[Bottom][col].ascii_character = 65} = {0}

\* C8: backspace at column 0 changes nothing; at column c > 0 it leaves a
\* blank character in the cell (bottom row, c) and column_position = c - 1.
BackspaceEffect ==
    op.name = "backspace"
    => IF prev.column_position = 0
       THEN buffer = prev.buffer /\ column_position = prev.column_position
       ELSE /\ buffer[Bottom][prev.column_position].ascii_character = SPACE
            /\ column_position = prev.column_position - 1

\* backspace removed a written character from a column right of 1.
BackspaceErased ==
    /\ op.name = "backspace"
    /\ prev.column_position > 1
    /\ prev.buffer[Bottom][prev.column_position].ascii_character # SPACE
    /\ buffer[Bottom][prev.column_position].ascii_character = SPACE

\* C9: cursor_back and cursor_front move column_position by one, clamped
\* at 0 and ACTUAL_BUFFER_WIDTH, and leave every cell's character and
\* logical color as they were (a color may only be swapped by the marker).
CursorMovesKeepCells ==
    op.name \in {"cursor_back", "cursor_front"}
    => /\ column_position =
              IF op.name = "cursor_back"
              THEN (IF prev.column_position = 0 THEN 0 ELSE prev.column_position - 1)
              ELSE (IF prev.column_position = ACTUAL_BUFFER_WIDTH
                    THEN ACTUAL_BUFFER_WIDTH ELSE prev.column_position + 1)
       /\ \A r \in Rows : \A col \in Cols :
              /\ buffer[r][col].ascii_character = prev.buffer[r][col].ascii_character
              /\ buffer[r][col].color_code \in
                     { prev.buffer[r][col].color_code,
                       16 * (prev.buffer[r][col].color_code % 16)
                          + (prev.buffer[r][col].color_code \div 16) }

\* C10: after clear_screen(C) every cell is a blank with color code (C, C);
\* column_position and the active color are as before.
ClearScreenEffect ==
    op.name = "clear_screen"
    => /\ \A r \in Rows : \A col \in Cols :
              buffer[r][col] = Char(SPACE, 16 * op.arg[1] + op.arg[1])
       /\ column_position = prev.column_position
       /\ color_code = prev.color_code

\* clear_screen ran on a screen with text, away from column 0, with an
\* active color other than (C, C).
ClearedWithText ==
    /\ op.name = "clear_screen"
    /\ prev.column_position > 0
    /\ ~Cleared(prev.buffer)
    /\ color_code # 16 * op.arg[1] + op.arg[1]

\* C11: a write_byte that does not wrap changes no cell of rows
\* 0..BUFFER_HEIGHT-2 and no bottom-row cell in a column >=
\* ACTUAL_BUFFER_WIDTH.
NoWrapKeepsOtherCells ==
    (op.name = "write_byte" /\ ~WrapNeeded(prev, op.arg[1]))
    => /\ \A r \in 0 .. (Bottom - 1) : buffer[r] = prev.buffer[r]
       /\ \A col \in ACTUAL_BUFFER_WIDTH .. (BUFFER_WIDTH - 1) :
              buffer[Bottom][col] = prev.buffer[Bottom][col]

\* C14: set_color(fg, bg) makes the active color code (bg << 4) | fg and
\* leaves every cell and column_position as they were.
SetColorEffect ==
    op.name = "set_color"
    => /\ color_code = 16 * op.arg[2] + op.arg[1]
       /\ buffer = prev.buffer
       /\ column_position = prev.column_position

\* set_color changed the active color on a screen with text, away from
\* column 0.
SetColorWithText ==
    /\ op.name = "set_color"
    /\ color_code # prev.color_code
    /\ prev.column_position > 0
    /\ ~BlankRow(buffer[Bottom])

\* C18: write_byte(b), b not a newline, at column c < ACTUAL_BUFFER_WIDTH
\* leaves column_position = c + 1 and byte b with the active color in the
\* cell (bottom row, c + 1); the cell (bottom row, c) keeps its character.
WriteByteEffect ==
    (op.name = "write_byte" /\ ~WrapNeeded(prev, op.arg[1]))
    => /\ column_position = prev.column_position + 1
       /\ buffer[Bottom][prev.column_position + 1] = Char(op.arg[1], color_code)
       /\ buffer[Bottom][prev.column_position].ascii_character =
              prev.buffer[Bottom][prev.column_position].ascii_character

\* write_byte stored a byte right of a cell that holds another character.
WroteNextToText ==
    /\ op.name = "write_byte"
    /\ ~WrapNeeded(prev, op.arg[1])
    /\ prev.column_position > 0
    /\ buffer[Bottom][prev.column_position].ascii_character \notin {SPACE, op.arg[1]}
    /\ buffer[Bottom][column_position].ascii_character = op.arg[1]

\* C19: backspace, cursor_back, cursor_front and set_color never scroll:
\* rows 0..BUFFER_HEIGHT-2 stay as they were.
OnlyWritesScroll ==
    op.name \in {"backspace", "cursor_back", "cursor_front", "set_color"}
    => /\ scrolls = 0
       /\ \A r \in 0 .. (Bottom - 1) : buffer[r] = prev.buffer[r]

Swapped(cc) == 16 * (cc % 16) + (cc \div 16)

\* The cell shows the swap of its logical color / shows its logical color
\* (a color with equal halves shows both).
LooksInverted(r, col) ==
    <<r, col>> \in toggled \/ Swapped(buffer[r][col].color_code) = buffer[r][col].color_code

LooksPlain(r, col) ==
    <<r, col>> \notin toggled \/ Swapped(buffer[r][col].color_code) = buffer[r][col].color_code

\* C17: after every Writer operation the cell (bottom row,
\* column_position + 1) is color-inverted and no other cell is.
MarkerOnly ==
    nops >= 1
    => /\ LooksInverted(Bottom, column_position + 1)
       /\ \A r \in Rows : \A col \in Cols :
              (r # Bottom \/ col # column_position + 1) => LooksPlain(r, col)

\* C15: for every palette pair (fg, bg), ColorCode::new(fg, bg) is the
\* byte (bg << 4) | fg and get_colors gives back (fg, bg).
PackRoundTrip ==
    /\ op.name = "new"
       => color_code = 16 * op.arg[2] + op.arg[1] /\ color_code \in 0 .. 255
    /\ op.name = "get_colors" => op.arg[3] = op.arg[1] /\ op.arg[4] = op.arg[2]

\* White on light blue was packed and unpacked.
UnpackedWhiteOnLightBlue ==
    op.name = "get_colors" /\ op.arg = <<White, LightBlue, White, LightBlue>>

\* C16: invert turns the code of (fg, bg) into the code of (bg, fg); invert
\* twice, and invert_colors twice on a cell, give back the original.
InvertSwaps ==
    /\ op.name = "invert" => color_code = 16 * op.arg[1] + op.arg[2]
    /\ op.name = "invert_twice" => color_code = 16 * op.arg[2] + op.arg[1]
    /\ op.name = "invert_colors" =>
           buffer[Bottom][0] = Char(88, 16 * op.arg[1] + op.arg[2])
    /\ op.name = "invert_colors_twice" =>
           buffer[Bottom][0] = Char(88, 16 * op.arg[2] + op.arg[1])

\* Yellow on black was inverted twice.
InvertedTwice ==
    op.name = "invert_twice" /\ op.arg = <<Yellow, Black>> /\ color_code = 14

PanicPrinting(c) ==
    \E i \in 1 .. Len(stack[c]) : stack[c][i].kind = "panic" /\ stack[c][i].pc # "idle"

PanicPrinted(c) ==
    \E i \in 1 .. Len(stack[c]) : stack[c][i].kind = "panic" /\ stack[c][i].pc = "idle"

\* C12: the print of the panic handler always gets the lock, writes and
\* returns, wherever the panic was raised.
PanicPrintReturns == \A c \in CPUS : PanicPrinting(c) ~> PanicPrinted(c)

Occurrences(s, x) == Cardinality({i \in 1 .. Len(s) : s[i] = x})

\* The bottom-row cells from..from+Len(text)-1 show text in color.
ShowsText(from, text, color) ==
    \A i \in 1 .. Len(text) :
        buffer[Bottom][from + i - 1] = Char(text[i], color)

ComposerDone(t) == t.name = "print_with_colors" /\ t.pc = "unlock"

\* C13: when the composer has written its last triple and is about to
\* release, it has taken the lock once, its writes form one run that no
\* other writer's output splits, the active color is that of the last
\* triple, and (no wrap having happened) the bottom row shows
\* "Welcome to the " yellow on black directly followed by
\* "Popcorn Kernel!" light blue on black, ending at the cursor.
ComposerAtomic ==
    \A c \in CPUS : \A i \in 1 .. Len(stack[c]) :
        ComposerDone(stack[c][i]) =>
            /\ lock = stack[c][i].id
            /\ Occurrences(acquired, stack[c][i].id) = 1
            /\ Occurrences(mutators, stack[c][i].id) = 1
            /\ mutators[Len(mutators)] = stack[c][i].id
            /\ color_code = ColorCode_new(LightBlue, Black)
            /\ column_position >= Len(WELCOME) + Len(KERNEL) =>
                   /\ ShowsText(column_position - 29, WELCOME,
                                ColorCode_new(Yellow, Black))
                   /\ ShowsText(column_position - 14, KERNEL,
                                ColorCode_new(LightBlue, Black))

\* The composer is done with the whole line on one CPU while an interrupt
\* handler on the other one spins on the lock.
ComposerDoneHandlerWaits ==
    \E c, d \in CPUS :
        /\ ComposerDone(Top(c))
        /\ column_position >= Len(WELCOME) + Len(KERNEL)
        /\ Top(d).kind = "handler"
        /\ Top(d).pc = "lock"

InCall(c) == Top(c).pc # "idle"

\* The operation just done called next_line no more often than it moved
\* the cursor to column 0: once at most per byte written, once at most
\* for any other operation.
BoundedScroll == scrolls <= (IF op.name = "write_string" THEN Len(op.arg) ELSE 1)

\* The lock is held only by a call that has not yet dropped its guard.
HeldByCallInProgress ==
    lock # 0 =>
        \E c \in CPUS : \E i \in 1 .. Len(stack[c]) :
            /\ lock = stack[c][i].id
            /\ stack[c][i].pc \in {"body", "unlock"}

\* A call that returns has given the lock back and leaves IF as it found it.
ReturnRestores ==
    \A c \in CPUS :
        (Len(stack'[c]) = Len(stack[c]) /\ Top(c).pc = "sti" /\ Top(c)'.pc = "idle")
            => /\ interrupts_enabled'[c] = Top(c).saved
               /\ lock' # Top(c).id

\* C20: every gateway call terminates: an operation scrolls at most once
\* per cursor move, the lock is never held by a call that has returned, a
\* returning call restores the interrupt-enable state it found, and under
\* fair scheduling every context that entered a call (in particular one
\* spinning on the lock) gets the lock and leaves the call.
GatewayCallTerminates ==
    /\ [](BoundedScroll /\ HeldByCallInProgress)
    /\ [][ReturnRestores]_vars
    /\ \A c \in CPUS : (Top(c).pc = "lock") ~> (Top(c).pc = "body")
    /\ \A c \in CPUS : InCall(c) ~> ~InCall(c)

====
